---- MODULE Spec2Model ----
\* TiingoRESTClient (tiingo_rest_client.py): token validation at construction,
\* column / date / frequency validation, URL construction, the per-ticker
\* request loop of get_stock_hist and the assembly of its result, and the
\* single-request get_stock_last.
\*
\* Strings that the code inspects character by character (frequency tokens,
\* date strings) are sequences of one-character strings.  A URL is the
\* sequence of the fragments the code concatenates, so that string
\* concatenation is \o and str.replace acts on the fragments.
EXTENDS Integers, Sequences, FiniteSets, TLC

VARIABLES pc, token, tii_headers, op, tickers, frequency, start, end, columns,
          end_point, valid_columns, tii_request, i, data, valid_tickers,
          reqs, resps, warnings, df, outcome, err

vars == <<pc, token, tii_headers, op, tickers, frequency, start, end, columns,
          end_point, valid_columns, tii_request, i, data, valid_tickers,
          reqs, resps, warnings, df, outcome, err>>

-----------------------------------------------------------------------------
\* Bounds of the model

MaxTickers == 3
MaxCols == 2

-----------------------------------------------------------------------------
\* Class constants

tii_eod == "https://api.tiingo.com/tiingo/daily/"
tii_iex == "https://api.tiingo.com/iex/"

tii_eod_cols ==
    <<"open", "high", "low", "close", "volume", "adjOpen", "adjHigh",
      "adjLow", "adjClose", "adjVolume", "divCash", "splitFactor">>

tii_iex_hist_cols == <<"open", "high", "low", "close", "volume">>

tii_iex_last_cols ==
    <<"timestamp", "quoteTimestamp", "lastSaleTimestamp", "last", "lastSize",
      "tngoLast", "prevClose", "open", "high", "low", "mid", "volume",
      "bidSize", "bidPrice", "askSize", "askPrice">>

daily == <<"d", "a", "i", "l", "y">>
weekly == <<"w", "e", "e", "k", "l", "y">>
monthly == <<"m", "o", "n", "t", "h", "l", "y">>
annually == <<"a", "n", "n", "u", "a", "l", "l", "y">>

tii_resample_freqs == <<daily, weekly, monthly, annually>>

AuthRejected == "Auth Token was not correct"

-----------------------------------------------------------------------------
\* Inputs the operations are called with

TokenPool == {"tokA", "tokB"}

TickerPool == {"AAPL", "msft"}

ColumnPool == {"open", "adjClose", "foo"}

five_min == <<"5", "m", "i", "n">>
four_hour == <<"4", "h", "o", "u", "r">>
five_space_min == <<"5", " ", "m", "i", "n">>
weekly2 == <<"w", "e", "e", "k", "l", "y", "2">>

\* every frequency token tried
FreqPool ==
    { daily, weekly, monthly, annually, five_min, four_hour,
      five_space_min, weekly2,
      <<"1", "5", "m", "i", "n">>,
      <<"x", "y", "z">>,
      <<"m", "i", "n">>,
      <<"5", "m", "i", "n", "s">>,
      <<"5", "M", "i", "n">>,
      <<>> }

\* the frequency tokens of the calls whose request loop is explored
LoopFreqPool == {daily, five_min, weekly2}

NoDate == <<>>
GoodDate == <<"2", "0", "2", "4", "-", "0", "2", "-", "1", "0">>
BadDay == <<"2", "0", "2", "4", "-", "0", "2", "-", "3", "0">>

DatePool == {NoDate, GoodDate, BadDay}

\* every date string tried
WideDatePool ==
    DatePool \cup
    { <<"2", "0", "2", "4", "-", "0", "2", "-", "2", "9">>,
      <<"2", "0", "2", "3", "-", "0", "2", "-", "2", "9">>,
      <<"2", "0", "2", "4", "-", "1", "3", "-", "0", "1">>,
      <<"2", "0", "2", "4", "-", "2", "-", "1", "0">>,
      <<"1", "0", "/", "0", "2", "/", "2", "0", "2", "4">>,
      <<"t", "o", "d", "a", "y">> }

MessagePool == {AuthRejected, "You successfully sent a request"}

RECURSIVE SeqsUpTo(_, _)
SeqsUpTo(S, n) ==
    IF n = 0 THEN {<<>>}
    ELSE LET shorter == SeqsUpTo(S, n - 1)
         IN  shorter \cup {Append(s, x) : s \in shorter, x \in S}

\* tickers: Union[str, Sequence[str]]
TickerArgs ==
    {[kind |-> "str", value |-> t] : t \in TickerPool}
    \cup {[kind |-> "seq", value |-> s] : s \in SeqsUpTo(TickerPool, MaxTickers)}

ColumnArgs == SeqsUpTo(ColumnPool, MaxCols)

\* one ticker, given as a string or as a list
OneTickerArgs ==
    {[kind |-> "str", value |-> "AAPL"], [kind |-> "seq", value |-> <<"msft">>]}

-----------------------------------------------------------------------------
\* Python helpers

\* x in <tuple>
InSeq(x, s) == \E k \in 1..Len(s) : s[k] = x

\* sep.join(parts), as fragments
RECURSIVE Join(_, _)
Join(sep, parts) ==
    IF Len(parts) = 0 THEN <<>>
    ELSE IF Len(parts) = 1 THEN <<parts[1]>>
    ELSE <<parts[1], sep>> \o Join(sep, Tail(parts))

\* sep.join(parts) for parts that are sequences of characters
RECURSIVE JoinChars(_, _)
JoinChars(sep, parts) ==
    IF Len(parts) = 0 THEN <<>>
    ELSE IF Len(parts) = 1 THEN parts[1]
    ELSE parts[1] \o <<sep>> \o JoinChars(sep, Tail(parts))

\* s.replace(old, new): every occurrence is replaced
Replace(s, old, new) ==
    [k \in 1..Len(s) |-> IF s[k] = old THEN new ELSE s[k]]

\* ticker.upper()
Upper(t) == IF t = "msft" THEN "MSFT" ELSE t

Digits == {"0", "1", "2", "3", "4", "5", "6", "7", "8", "9"}

DigitVal(c) ==
    CASE c = "0" -> 0 [] c = "1" -> 1 [] c = "2" -> 2 [] c = "3" -> 3
      [] c = "4" -> 4 [] c = "5" -> 5 [] c = "6" -> 6 [] c = "7" -> 7
      [] c = "8" -> 8 [] c = "9" -> 9

\* isinstance(tickers, str) -> [tickers]
NormalizeTickers(arg) ==
    IF arg.kind = "str" THEN <<arg.value>> ELSE arg.value

-----------------------------------------------------------------------------
\* Validation helpers

\* the pattern without its end anchor
resample_match_prefix(s) ==
    \E k \in 1..Len(s) :
        /\ \A j \in 1..k : s[j] \in Digits
        /\ \/ k + 3 <= Len(s) /\ SubSeq(s, k + 1, k + 3) = <<"m", "i", "n">>
           \/ k + 4 <= Len(s) /\ SubSeq(s, k + 1, k + 4) = <<"h", "o", "u", "r">>

\* re.match("\A^[0-9]+(min|hour)\Z", s): one or more digits, then min or
\* hour, then the end of the string
resample_match(s) ==
    \E k \in 1..Len(s) :
        /\ \A j \in 1..k : s[j] \in Digits
        /\ SubSeq(s, k + 1, Len(s)) \in
               {<<"m", "i", "n">>, <<"h", "o", "u", "r">>}

IsLeap(y) == (y % 4 = 0 /\ y % 100 # 0) \/ y % 400 = 0

DaysInMonth(y, m) ==
    IF m = 2 THEN (IF IsLeap(y) THEN 29 ELSE 28)
    ELSE IF m \in {4, 6, 9, 11} THEN 30 ELSE 31

\* date.fromisoformat(s) returns (does not raise): the YYYY-MM-DD form.
\* Python 3.11 and later also accept the basic and week forms of ISO 8601;
\* the date strings tried here are none of those.
fromisoformat_ok(s) ==
    /\ Len(s) = 10
    /\ s[5] = "-" /\ s[8] = "-"
    /\ \A k \in {1, 2, 3, 4, 6, 7, 9, 10} : s[k] \in Digits
    /\ LET y == 1000 * DigitVal(s[1]) + 100 * DigitVal(s[2])
                  + 10 * DigitVal(s[3]) + DigitVal(s[4])
           m == 10 * DigitVal(s[6]) + DigitVal(s[7])
           d == 10 * DigitVal(s[9]) + DigitVal(s[10])
       IN  /\ y >= 1
           /\ m >= 1 /\ m <= 12
           /\ d >= 1 /\ d <= DaysInMonth(y, m)

is_valid_date(str_date) ==
    IF str_date = <<>> THEN TRUE ELSE fromisoformat_ok(str_date)

\* the endpoint names _validate_cols knows
KnownEndpoint(endpoint) == endpoint \in {"eod", "iex_last", "iex_hist"}

valid_names(endpoint) ==
    IF endpoint = "eod" THEN tii_eod_cols
    ELSE IF endpoint = "iex_last" THEN tii_iex_last_cols
    ELSE tii_iex_hist_cols

\* the loop of _validate_cols: the columns kept, in input order
RECURSIVE KeepValid(_, _)
KeepValid(names, cols) ==
    IF cols = <<>> THEN <<>>
    ELSE IF InSeq(Head(cols), names)
         THEN <<Head(cols)>> \o KeepValid(names, Tail(cols))
         ELSE KeepValid(names, Tail(cols))

validate_cols(endpoint, cols) ==
    IF KnownEndpoint(endpoint) THEN KeepValid(valid_names(endpoint), cols)
    ELSE <<>>

\* the warnings _validate_cols prints, in order
RECURSIVE DroppedWarnings(_, _)
DroppedWarnings(names, cols) ==
    IF cols = <<>> THEN <<>>
    ELSE IF InSeq(Head(cols), names)
         THEN DroppedWarnings(names, Tail(cols))
         ELSE <<[kind |-> "column", name |-> Head(cols), response |-> 0]>>
                  \o DroppedWarnings(names, Tail(cols))

validate_warnings(endpoint, cols) ==
    IF KnownEndpoint(endpoint) THEN DroppedWarnings(valid_names(endpoint), cols)
    ELSE <<[kind |-> "endpoint", name |-> endpoint, response |-> 0]>>

build_pre_query(endpoint, cols, s, e, resample) ==
    LET format == <<"format=json">>
        colq == IF cols # <<>> THEN <<"&columns=">> \o Join(",", cols) ELSE <<>>
        freq == <<"&resampleFreq=">> \o resample
        start_date == IF s # <<>> THEN <<"&startDate=">> \o s ELSE <<>>
        end_date == IF e # <<>> THEN <<"&endDate=">> \o e ELSE <<>>
    IN  <<endpoint, "ticker", "/prices?">> \o format
            \o freq \o colq \o start_date \o end_date

-----------------------------------------------------------------------------
\* The provider, and the parsing of its responses

\* the bodies the prices resource can answer with: an array of row objects,
\* a JSON object of scalars (an error payload), a body that is not JSON, and
\* JSON that parses to a table without a date column (such as [])
HistBodies == {"rows", "error", "nonjson", "nodate"}

\* the columns named in the columns component of a request
RequestedColumns(url) ==
    LET at == {k \in 1..Len(url) : url[k] = "&columns="}
    IN  IF at = {} THEN <<>>
        ELSE LET k == CHOOSE x \in at : TRUE
                 stops == {j \in (k + 1)..Len(url) :
                              url[j] \in {"&startDate=", "&endDate="}}
                 stop == IF stops = {} THEN Len(url) + 1
                         ELSE CHOOSE j \in stops : \A j2 \in stops : j <= j2
             IN  SelectSeq(SubSeq(url, k + 1, stop - 1), LAMBDA f : f # ",")

\* the provider answers with the columns asked for, or with all the columns
\* of the endpoint when the request names none
ProviderColumns(url) ==
    IF RequestedColumns(url) # <<>> THEN RequestedColumns(url)
    ELSE IF url[1] = tii_eod THEN tii_eod_cols ELSE tii_iex_hist_cols

\* the response to the n-th request of a call
Response(body, n, url) ==
    [body |-> body, n |-> n,
     fields |-> IF body = "rows" THEN <<"date">> \o ProviderColumns(url)
                ELSE <<>>]

\* r.json() raises
json_raises(r) == r.body = "nonjson"

\* pd.read_json(StringIO(r.text)) raises
read_json_raises(r) == r.body \in {"error", "nonjson"}

\* pd.read_json(StringIO(r.text)): one column per field, default index
read_json(r) ==
    [index |-> <<>>,
     columns |-> [k \in 1..Len(r.fields) |-> [label |-> r.fields[k], src |-> r.n]],
     rows |-> <<[key |-> <<>>, src |-> r.n]>>]

HasColumn(px, name) == \E k \in 1..Len(px.columns) : px.columns[k].label = name

\* px.set_index(name, inplace=True), when the column exists
set_index(px, name) ==
    [px EXCEPT !.index = <<name>>,
               !.columns = SelectSeq(px.columns, LAMBDA c : c.label # name)]

-----------------------------------------------------------------------------
\* Dataframe composition

EmptyFrame == [index |-> <<>>, columns |-> <<>>, rows |-> <<>>]

RECURSIVE AllColumns(_)
AllColumns(frames) ==
    IF frames = <<>> THEN <<>>
    ELSE Head(frames).columns \o AllColumns(Tail(frames))

RECURSIVE AllRows(_)
AllRows(frames) ==
    IF frames = <<>> THEN <<>>
    ELSE Head(frames).rows \o AllRows(Tail(frames))

\* labels in order of first appearance
RECURSIVE Distinct(_, _)
Distinct(seen, labels) ==
    IF labels = <<>> THEN seen
    ELSE IF InSeq(Head(labels), seen) THEN Distinct(seen, Tail(labels))
         ELSE Distinct(Append(seen, Head(labels)), Tail(labels))

\* pd.concat(frames, axis=1, names=["ticker"]): the frames side by side
concat_columns(frames) ==
    [index |-> frames[1].index,
     columns |-> AllColumns(frames),
     rows |-> AllRows(frames)]

\* pd.concat(frames, keys=keys, names=["ticker"]): the frames stacked, the
\* rows of each under its key
concat_rows(frames, keys) ==
    LET all == AllColumns(frames)
        labels == Distinct(<<>>, [k \in 1..Len(all) |-> all[k].label])
    IN  [index |-> <<"ticker">> \o frames[1].index,
         columns |-> [k \in 1..Len(labels) |-> [label |-> labels[k], src |-> 0]],
         rows |-> [k \in 1..Len(frames) |->
                     [key |-> <<keys[k]>>, src |-> frames[k].rows[1].src]]]

\* df.columns = labels raises (Length mismatch)
set_columns_raises(frame, labels) == Len(frame.columns) # Len(labels)

\* df.columns = labels
set_columns(frame, labels) ==
    [frame EXCEPT !.columns =
        [k \in 1..Len(frame.columns) |->
            [label |-> labels[k], src |-> frame.columns[k].src]]]

\* the cases chosen by the number of tickers asked for
compose_case_by_inputs(frames, cols) ==
    IF Len(frames) = 0 THEN 1
    ELSE IF Len(tickers) = 1 THEN 2
    ELSE IF Len(cols) = 1 THEN 3
    ELSE 4

\* which of the four cases of the composition applies
compose_case(frames, cols) ==
    IF Len(frames) = 0 THEN 1
    ELSE IF Len(frames) = 1 THEN 2
    ELSE IF Len(cols) = 1 THEN 3
    ELSE 4

\* the composition raises
compose_raises(frames, keys, cols) ==
    /\ compose_case(frames, cols) = 3
    /\ set_columns_raises(concat_columns(frames), keys)

\* the composed dataframe
compose(frames, keys, cols) ==
    CASE compose_case(frames, cols) = 1 -> EmptyFrame
      [] compose_case(frames, cols) = 2 -> frames[1]
      [] compose_case(frames, cols) = 3 -> set_columns(concat_columns(frames), keys)
      [] OTHER -> concat_rows(frames, keys)

-----------------------------------------------------------------------------
\* State

NoFrame == [index |-> <<"none">>, columns |-> <<>>, rows |-> <<>>]

NoHeaders == [ContentType |-> "", Authorization |-> <<>>]

\* the locals of the operations, before any call
NoCall ==
    /\ tickers = <<>> /\ frequency = <<>> /\ start = <<>> /\ end = <<>>
    /\ columns = <<>> /\ end_point = "" /\ valid_columns = <<>>
    /\ tii_request = <<>> /\ i = 1 /\ data = <<>> /\ valid_tickers = <<>>
    /\ reqs = <<>> /\ resps = <<>> /\ warnings = <<>> /\ df = NoFrame

InitOver(Tokens) ==
    /\ pc = "new"
    /\ token \in Tokens
    /\ tii_headers = NoHeaders
    /\ op = "none"
    /\ outcome = "none"
    /\ err = <<>>
    /\ NoCall

\* the headers with the token left out
make_headers_no_token(tok) ==
    [ContentType |-> "application/json", Authorization |-> <<"Token ">>]

\* the headers __init__ builds
make_headers(tok) ==
    [ContentType |-> "application/json", Authorization |-> <<"Token ", tok>>]

\* the message __init__ compares the provider's message with
rejected(message) == message = AuthRejected

\* __init__(token): the provider answers the token check with a message
Construct(message) ==
    /\ pc = "new"
    /\ tii_headers' = make_headers(token)
    /\ op' = "init"
    /\ reqs' = << <<"https://api.tiingo.com/api/test?token=", token>> >>
    /\ resps' = <<message>>
    /\ IF rejected(message)
       THEN /\ outcome' = "TiingoError"
            /\ err' = <<"Tiingo rejected Auth Token ", token,
                        "Tiingo response: ", message>>
            /\ pc' = "failed"
       ELSE /\ outcome' = "ok"
            /\ err' = <<>>
            /\ pc' = "idle"
    /\ UNCHANGED <<token, tickers, frequency, start, end, columns, end_point,
                   valid_columns, tii_request, i, data, valid_tickers,
                   warnings, df>>

\* __init__(token): the answer to the token check is not JSON, or is JSON
\* without a message
ConstructMalformed(body) ==
    /\ pc = "new"
    /\ tii_headers' = make_headers(token)
    /\ op' = "init"
    /\ reqs' = << <<"https://api.tiingo.com/api/test?token=", token>> >>
    /\ resps' = <<body>>
    /\ outcome' = IF body = "nonjson" THEN "JSONDecodeError" ELSE "KeyError"
    /\ err' = <<>>
    /\ pc' = "failed"
    /\ UNCHANGED <<token, tickers, frequency, start, end, columns, end_point,
                   valid_columns, tii_request, i, data, valid_tickers,
                   warnings, df>>

\* get_stock_metadata(ticker)
GetStockMetadata(ticker, body) ==
    /\ pc = "ready"
    /\ op' = "metadata"
    /\ tickers' = <<ticker>>
    /\ reqs' = << <<tii_eod, ticker>> >>
    /\ resps' = <<body>>
    /\ outcome' = IF body = "nonjson" THEN "JSONDecodeError" ELSE "ok"
    /\ err' = <<>>
    /\ pc' = "done"
    /\ UNCHANGED <<token, tii_headers, frequency, start, end, columns,
                   end_point, valid_columns, tii_request, i, data,
                   valid_tickers, warnings, df>>

\* the endpoint the frequency routes to
route(freq) ==
    IF resample_match(freq) THEN "iex_hist"
    ELSE IF InSeq(freq, tii_resample_freqs) THEN "eod"
    ELSE "invalid"

base_url(endpoint) == IF endpoint = "iex_hist" THEN tii_iex ELSE tii_eod

\* the date check with the end date forgotten
dates_rejected_start_only(s, e) == ~is_valid_date(s)

\* the date check of get_stock_hist fails
dates_rejected(s, e) == ~is_valid_date(s) \/ ~is_valid_date(e)

\* get_stock_hist, up to the request loop: validation and the pre query
HistBegin(targ, freq, s, e, cols) ==
    /\ pc = "ready"
    /\ op' = "hist"
    /\ tickers' = NormalizeTickers(targ)
    /\ frequency' = freq /\ start' = s /\ end' = e /\ columns' = cols
    /\ i' = 1
    /\ IF route(freq) = "invalid"
       THEN /\ outcome' = "TiingoError"
            /\ err' = <<"Invalid resample frequency: ">> \o freq
                        \o <<"Valid values: End of day data: ">>
                        \o JoinChars(", ", tii_resample_freqs)
                        \o <<"Intraday data: 5min, 15min, 1hour, 4hour, etc.">>
            /\ end_point' = "" /\ valid_columns' = <<>> /\ warnings' = <<>>
            /\ tii_request' = <<>>
            /\ pc' = "done"
       ELSE /\ end_point' = base_url(route(freq))
            /\ valid_columns' = validate_cols(route(freq), cols)
            /\ warnings' = validate_warnings(route(freq), cols)
            /\ IF dates_rejected(s, e)
               THEN /\ outcome' = "TiingoError"
                    /\ err' = <<"Invalid date format. Valid format is: ",
                                "YYYY-MM-DD">>
                    /\ tii_request' = <<>>
                    /\ pc' = "done"
               ELSE /\ outcome' = "running"
                    /\ err' = <<>>
                    /\ tii_request' =
                           build_pre_query(base_url(route(freq)),
                                           validate_cols(route(freq), cols),
                                           s, e, freq)
                    /\ pc' = "hist_loop"
    /\ UNCHANGED <<token, tii_headers, data, valid_tickers, reqs, resps, df>>

\* what one iteration of the request loop does with the response
parse_result(r) ==
    IF read_json_raises(r)
    THEN (IF json_raises(r) THEN "JSONDecodeError" ELSE "dropped")
    ELSE IF HasColumn(read_json(r), "date") THEN "kept" ELSE "KeyError"

\* the URL requested for a ticker
ticker_url(pre_query, ticker) == Replace(pre_query, "ticker", ticker)

\* the ticker recorded before its response is parsed
next_valid_tickers_early(res, kept, ticker) ==
    IF res \in {"kept", "dropped"} THEN Append(kept, ticker) ELSE kept

\* valid_tickers after the iteration for ticker
next_valid_tickers(res, kept, ticker) ==
    IF res = "kept" THEN Append(kept, ticker) ELSE kept

\* data after the iteration that received r
next_data(res, frames, r) ==
    IF res = "kept" THEN Append(frames, set_index(read_json(r), "date"))
    ELSE frames

\* get_stock_hist, one iteration of the request loop
HistRequest(body) ==
    /\ pc = "hist_loop"
    /\ i <= Len(tickers)
    /\ LET ticker == tickers[i]
           url == ticker_url(tii_request, ticker)
           r == Response(body, i, url)
           res == parse_result(r)
       IN  /\ reqs' = Append(reqs, url)
           /\ resps' = Append(resps, body)
           /\ valid_tickers' = next_valid_tickers(res, valid_tickers, ticker)
           /\ data' = next_data(res, data, r)
           /\ warnings' =
                  IF res = "dropped"
                  THEN Append(warnings, [kind |-> "ticker",
                                         name |-> Upper(ticker),
                                         response |-> i])
                  ELSE warnings
           /\ IF res \in {"kept", "dropped"}
              THEN /\ i' = i + 1
                   /\ UNCHANGED <<pc, outcome>>
              ELSE /\ outcome' = res
                   /\ pc' = "done"
                   /\ UNCHANGED i
    /\ UNCHANGED <<token, tii_headers, op, tickers, frequency, start, end,
                   columns, end_point, valid_columns, tii_request, df, err>>

\* get_stock_hist, after the loop: dataframe composition and return
HistCompose ==
    /\ pc = "hist_loop"
    /\ i > Len(tickers)
    /\ IF compose_raises(data, valid_tickers, columns)
       THEN /\ outcome' = "ValueError"
            /\ UNCHANGED df
       ELSE /\ outcome' = "ok"
            /\ df' = compose(data, valid_tickers, columns)
    /\ pc' = "done"
    /\ UNCHANGED <<token, tii_headers, op, tickers, frequency, start, end,
                   columns, end_point, valid_columns, tii_request, i, data,
                   valid_tickers, reqs, resps, warnings, err>>

\* the URL with a columns component whatever the columns
last_url_always_columns(tks, cols) ==
    <<tii_iex, "?tickers=">> \o Join(",", tks) \o <<"&format=csv">>
        \o <<"&columns=">> \o Join(",", cols)

\* the URL get_stock_last requests
last_url(tks, cols) ==
    <<tii_iex, "?tickers=">> \o Join(",", tks) \o <<"&format=csv">>
        \o (IF cols # <<>> THEN <<"&columns=">> \o Join(",", cols) ELSE <<>>)

\* the bodies the last-quote resource can answer with: CSV with a ticker
\* column, or anything read_csv(index_col="ticker") raises on
LastBodies == {"csv", "malformed"}

\* pd.read_csv(StringIO(r.text), index_col="ticker")
read_csv(body, url) ==
    LET cols == RequestedColumns(url)
    IN  [index |-> <<"ticker">>,
         columns |-> [k \in 1..Len(cols) |-> [label |-> cols[k], src |-> 1]],
         rows |-> <<[key |-> <<>>, src |-> 1]>>]

\* get_stock_last(tickers, columns)
GetStockLast(targ, cols, body) ==
    /\ pc = "ready"
    /\ op' = "last"
    /\ tickers' = NormalizeTickers(targ)
    /\ columns' = cols
    /\ valid_columns' = validate_cols("iex_last", cols)
    /\ warnings' = validate_warnings("iex_last", cols)
    /\ LET url == last_url(NormalizeTickers(targ),
                           validate_cols("iex_last", cols))
       IN  /\ reqs' = <<url>>
           /\ resps' = <<body>>
           /\ IF body = "csv"
              THEN /\ outcome' = "ok"
                   /\ df' = read_csv(body, url)
              ELSE /\ outcome' = "ParserError"
                   /\ df' = NoFrame
    /\ err' = <<>>
    /\ pc' = "done"
    /\ UNCHANGED <<token, tii_headers, frequency, start, end, end_point,
                   tii_request, i, data, valid_tickers>>

\* the call is over: its result or exception goes to the caller and its
\* locals are gone; the client is left as it was
Return ==
    /\ pc \in {"idle", "done"}
    /\ pc' = "ready"
    /\ op' = "none"
    /\ outcome' = "none"
    /\ err' = <<>>
    /\ tickers' = <<>> /\ frequency' = <<>> /\ start' = <<>> /\ end' = <<>>
    /\ columns' = <<>> /\ end_point' = "" /\ valid_columns' = <<>>
    /\ tii_request' = <<>> /\ i' = 1 /\ data' = <<>> /\ valid_tickers' = <<>>
    /\ reqs' = <<>> /\ resps' = <<>> /\ warnings' = <<>> /\ df' = NoFrame
    /\ UNCHANGED <<token, tii_headers>>

\* the calls a caller makes on a constructed client, with arguments from
\* the given sets
MetadataCall ==
    /\ pc = "ready"
    /\ \E t \in TickerPool, b \in {"json", "nonjson"} : GetStockMetadata(t, b)

HistCall(T, F, D, C) ==
    /\ pc = "ready"
    /\ \E targ \in T, f \in F, s \in D, e \in D, cols \in C :
          HistBegin(targ, f, s, e, cols)

LastCall(T, C) ==
    /\ pc = "ready"
    /\ \E targ \in T, cols \in C, b \in LastBodies : GetStockLast(targ, cols, b)

NextOver(T, F, D, C) ==
    \/ \E m \in MessagePool : Construct(m)
    \/ \E b \in {"nonjson", "nomessage"} : ConstructMalformed(b)
    \/ MetadataCall
    \/ HistCall(T, F, D, C)
    \/ LastCall(T, C)
    \/ \E b \in HistBodies : HistRequest(b)
    \/ HistCompose
    \/ Return

\* one client, any batch of tickers and columns
Init == InitOver({"tokA"})
Next == NextOver(TickerArgs, LoopFreqPool, DatePool, ColumnArgs)
Spec == Init /\ [][Next]_vars

\* one client, every frequency token and date string
InitValidate == InitOver({"tokA"})
NextValidate ==
    NextOver(OneTickerArgs, FreqPool, WideDatePool, SeqsUpTo(ColumnPool, 1))
SpecValidate == InitValidate /\ [][NextValidate]_vars

\* any token, a few calls
InitAuth == InitOver(TokenPool)
NextAuth ==
    NextOver(OneTickerArgs, {daily, weekly2}, {NoDate, GoodDate},
             SeqsUpTo(ColumnPool, 1))
SpecAuth == InitAuth /\ [][NextAuth]_vars

-----------------------------------------------------------------------------
\* Vocabulary of the properties

\* the frequency tokens that are digits followed by min or hour, and the
\* fixed ones, listed by hand
IntradayTokens == {five_min, four_hour, <<"1", "5", "m", "i", "n">>}
FixedTokens == {daily, weekly, monthly, annually}

\* the date strings that are empty or a calendar date, listed by hand
ValidDateStrings ==
    {NoDate, GoodDate, <<"2", "0", "2", "4", "-", "0", "2", "-", "2", "9">>}

ValidInputs ==
    /\ frequency \in IntradayTokens \cup FixedTokens
    /\ start \in ValidDateStrings
    /\ end \in ValidDateStrings

EodSet == {tii_eod_cols[k] : k \in 1..Len(tii_eod_cols)}
IexHistSet == {tii_iex_hist_cols[k] : k \in 1..Len(tii_iex_hist_cols)}
IexLastSet == {tii_iex_last_cols[k] : k \in 1..Len(tii_iex_last_cols)}

\* the whitelist of the endpoint the call uses
Whitelist ==
    IF op = "last" THEN IexLastSet
    ELSE IF frequency \in FixedTokens THEN EodSet ELSE IexHistSet

Filtered(cols, S) == SelectSeq(cols, LAMBDA c : c \in S)

\* the elements of s separated by commas
CommaList(s) ==
    IF s = <<>> THEN <<>>
    ELSE [k \in 1..(2 * Len(s) - 1) |->
             IF k % 2 = 1 THEN s[(k + 1) \div 2] ELSE ","]

\* the columns component a request should carry
ColumnsComponent(cols) ==
    IF cols = <<>> THEN <<>> ELSE <<"&columns=">> \o CommaList(cols)

Fragments(url) == {url[k] : k \in 1..Len(url)}

\* the URL a prices request for ticker t should have
ExpectedHistUrl(t) ==
    <<(IF frequency \in FixedTokens THEN tii_eod ELSE tii_iex), t,
      "/prices?", "format=json", "&resampleFreq=">> \o frequency
        \o ColumnsComponent(Filtered(columns, Whitelist))
        \o (IF start = NoDate THEN <<>> ELSE <<"&startDate=">> \o start)
        \o (IF end = NoDate THEN <<>> ELSE <<"&endDate=">> \o end)

\* the positions, in ascending order, of the tickers answered so far with
\* well-formed rows
RECURSIVE RowsPositions(_)
RowsPositions(n) ==
    IF n = 0 THEN <<>>
    ELSE IF resps[n] = "rows" THEN Append(RowsPositions(n - 1), n)
         ELSE RowsPositions(n - 1)

Survivors == RowsPositions(Len(resps))

HistCall_Done == op = "hist" /\ pc = "done"

\* the request loop of the call ran to its end
LoopCompleted == HistCall_Done /\ outcome \in {"ok", "ValueError"}

-----------------------------------------------------------------------------
\* Properties

\* C1: in get_stock_hist a ticker whose response cannot be turned into a
\* date-indexed table is dropped with a warning and the loop goes on: the call
\* never ends in an exception because of one ticker's response, every ticker
\* is requested, and the tickers answered with well-formed rows are exactly
\* the survivors.
C1_BadTickerNeverAborts ==
    (HistCall_Done /\ ValidInputs) =>
        /\ outcome \notin {"KeyError", "JSONDecodeError"}
        /\ Len(resps) = Len(tickers)
        /\ valid_tickers = [j \in 1..Len(Survivors) |-> tickers[Survivors[j]]]
        /\ \A k \in 1..Len(resps) :
              resps[k] # "rows" =>
                  \E w \in 1..Len(warnings) :
                      /\ warnings[w].kind = "ticker"
                      /\ warnings[w].response = k

\* C2: a get_stock_hist call with a frequency that is neither intraday nor
\* daily/weekly/monthly/annually, or with a start or end that is not a valid
\* date, ends in TiingoError and has issued no HTTP request.
C2_InvalidInputNoRequest ==
    (op = "hist" /\ ~ValidInputs) =>
        /\ pc = "done"
        /\ outcome = "TiingoError"
        /\ reqs = <<>>
        /\ resps = <<>>

C2_Witness ==
    /\ op = "hist"
    /\ frequency = daily /\ start = GoodDate /\ end = BadDay
    /\ outcome = "TiingoError"
    /\ reqs = <<>>

\* C7: get_stock_hist classifies a frequency token as intraday (digits then
\* min or hour, and nothing else), end-of-day-fixed (daily, weekly, monthly,
\* annually) or invalid; intraday uses the intraday base URL and the intraday
\* historical whitelist, end-of-day-fixed the end-of-day base URL and
\* whitelist, invalid raises TiingoError.  daily is end-of-day, 5min and 4hour
\* are intraday, "5 min" and weekly2 are invalid.
C7_FrequencyRouting ==
    op = "hist" =>
        /\ frequency \in IntradayTokens =>
              /\ end_point = tii_iex
              /\ valid_columns = Filtered(columns, IexHistSet)
              /\ outcome = "TiingoError" => err[1] # "Invalid resample frequency: "
        /\ frequency \in FixedTokens =>
              /\ end_point = tii_eod
              /\ valid_columns = Filtered(columns, EodSet)
              /\ outcome = "TiingoError" => err[1] # "Invalid resample frequency: "
        /\ frequency \notin IntradayTokens \cup FixedTokens =>
              /\ outcome = "TiingoError"
              /\ err[1] = "Invalid resample frequency: "
              /\ end_point = ""
        /\ frequency = daily => end_point = tii_eod
        /\ frequency \in {five_min, four_hour} => end_point = tii_iex
        /\ frequency \in {five_space_min, weekly2} => outcome = "TiingoError"

C7_Witness ==
    /\ op = "hist" /\ pc = "done"
    /\ frequency = four_hour
    /\ columns = <<"adjClose">>
    /\ end_point = tii_iex
    /\ valid_columns = <<>>
    /\ outcome = "ok"


\* the table get_stock_hist should hold for the ticker at position n
ExpectedTable(n) ==
    LET asked == Filtered(columns, Whitelist)
        labels == IF asked # <<>> THEN asked
                  ELSE IF frequency \in FixedTokens THEN tii_eod_cols
                  ELSE tii_iex_hist_cols
    IN  [index |-> <<"date">>,
         columns |-> [k \in 1..Len(labels) |-> [label |-> labels[k], src |-> n]],
         rows |-> <<[key |-> <<>>, src |-> n]>>]

\* C3: in get_stock_hist, when more than one ticker survives and exactly one
\* column was requested, in the whitelist or not, the call returns a
\* side-by-side table with exactly one column per surviving ticker, labeled
\* with the ticker symbols in original order.
C3_OneColumnSideBySide ==
    (LoopCompleted /\ Len(Survivors) > 1 /\ Len(columns) = 1) =>
        /\ outcome = "ok"
        /\ df.index = <<"date">>
        /\ df.columns = [k \in 1..Len(Survivors) |->
                            [label |-> tickers[Survivors[k]],
                             src |-> Survivors[k]]]

\* C4: the assembly case depends only on the number of surviving tickers and
\* of requested columns: no survivor gives an empty table, one survivor gives
\* that ticker's table unmodified whatever the columns, several survivors with
\* zero or several requested columns give the tables stacked under a
\* (ticker, date) index.
C4_AssemblyByCardinality ==
    LoopCompleted =>
        /\ Len(Survivors) = 0 => outcome = "ok" /\ df = EmptyFrame
        /\ Len(Survivors) = 1 =>
              outcome = "ok" /\ df = ExpectedTable(Survivors[1])
        /\ (Len(Survivors) > 1 /\ Len(columns) # 1) =>
              /\ outcome = "ok"
              /\ df.index = <<"ticker", "date">>
              /\ df.rows = [k \in 1..Len(Survivors) |->
                               [key |-> <<tickers[Survivors[k]]>>,
                                src |-> Survivors[k]]]

C4_Witness ==
    /\ LoopCompleted
    /\ Len(tickers) = 3 /\ Len(Survivors) = 2 /\ Len(columns) = 2
    /\ outcome = "ok"
    /\ df.index = <<"ticker", "date">>

\* C5: a get_stock_hist call that passes validation issues exactly one GET
\* per element of the ticker sequence, in order, each for the URL with that
\* ticker in the placeholder position, and no second request for any ticker:
\* the number of requests is the length of the ticker sequence.
C5_OneRequestPerTicker ==
    (HistCall_Done /\ ValidInputs) =>
        /\ Len(reqs) = Len(tickers)
        /\ \A k \in 1..Len(reqs) : reqs[k] = ExpectedHistUrl(tickers[k])

\* the call got a well-formed response to every request it was to make
AllWellFormed ==
    \/ op = "last" /\ resps = <<"csv">>
    \/ /\ op = "hist" /\ ValidInputs
       /\ \A k \in 1..Len(resps) : resps[k] = "rows"

ExpectedLastUrl ==
    <<tii_iex, "?tickers=">> \o CommaList(tickers) \o <<"&format=csv">>
        \o ColumnsComponent(Filtered(columns, IexLastSet))

\* C6: every request of get_stock_hist and get_stock_last carries as columns
\* component exactly the requested columns filtered by the endpoint's
\* whitelist, in input order, and none when no column survives; a column
\* outside the whitelist is in no request; one invalid column name never
\* aborts the call.
C6_ColumnsFiltered ==
    /\ op = "hist" =>
          \A k \in 1..Len(reqs) :
              /\ reqs[k] = ExpectedHistUrl(tickers[k])
              /\ Fragments(reqs[k]) \cap (ColumnPool \ Whitelist) = {}
    /\ op = "last" =>
          \A k \in 1..Len(reqs) :
              /\ reqs[k] = ExpectedLastUrl
              /\ Fragments(reqs[k]) \cap (ColumnPool \ Whitelist) = {}
    /\ (pc = "done" /\ AllWellFormed
            /\ \E k \in 1..Len(columns) : columns[k] \notin Whitelist) =>
          outcome = "ok"

\* C8: get_stock_last issues exactly one GET per call whatever the tickers:
\* all tickers joined by commas in input order, the CSV format flag, and a
\* columns component if and only if a requested column is in the last-quote
\* whitelist; a body that fails to parse propagates as an error, no ticker is
\* dropped and there is no second request.
C8_LastSingleRequest ==
    op = "last" =>
        /\ pc = "done"
        /\ reqs = <<ExpectedLastUrl>>
        /\ "&format=csv" \in Fragments(reqs[1])
        /\ ("&columns=" \in Fragments(reqs[1]))
              <=> (\E k \in 1..Len(columns) : columns[k] \in IexLastSet)
        /\ resps[1] = "malformed" => outcome = "ParserError" /\ df = NoFrame
        /\ resps[1] = "csv" => outcome = "ok" /\ df.index = <<"ticker">>
        /\ \A w \in 1..Len(warnings) : warnings[w].kind = "column"

C8_Witness ==
    /\ op = "last" /\ pc = "done"
    /\ tickers = <<"msft", "AAPL", "msft">>
    /\ columns = <<"foo", "open">>
    /\ resps = <<"malformed">>
    /\ outcome = "ParserError"
    /\ Len(reqs) = 1

\* C9: construction makes exactly one request, to the token check, with no
\* retry; it fails with TiingoError, carrying the provider's response, if and
\* only if the provider's message is "Auth Token was not correct"; otherwise
\* the client's authorization header is "Token <token>", and no later
\* get_stock_metadata, get_stock_hist or get_stock_last call, successful or
\* not, changes it.
C9_TokenCheckedOnce ==
    /\ op = "init" =>
          /\ reqs = << <<"https://api.tiingo.com/api/test?token=", token>> >>
          /\ Len(resps) = 1
          /\ outcome = "TiingoError" <=> resps[1] = AuthRejected
          /\ outcome = "TiingoError" =>
                pc = "failed" /\ token \in Fragments(err) /\ resps[1] \in Fragments(err)
          /\ resps[1] \in MessagePool \ {AuthRejected} =>
                pc = "idle" /\ outcome = "ok"
    /\ pc \in {"idle", "ready", "hist_loop", "done"} =>
          tii_headers = [ContentType |-> "application/json",
                         Authorization |-> <<"Token ", token>>]

C9_Witness ==
    /\ token = "tokB"
    /\ op = "hist" /\ pc = "done"
    /\ outcome = "KeyError"
    /\ tii_headers.Authorization = <<"Token ", "tokB">>

\* C10: throughout the request loop of get_stock_hist the surviving tickers
\* and the tables have the same length, the i-th table is the parsed response
\* of the i-th surviving ticker, and the survivors are a subsequence of the
\* input tickers in original order (a ticker given twice and surviving twice
\* is there twice); so each label or index key of the assembly is on the table
\* of the ticker it names.
C10_SurvivorsAligned ==
    op = "hist" =>
        /\ Len(valid_tickers) = Len(data)
        /\ Len(data) = Len(Survivors)
        /\ \A j \in 1..Len(data) :
              /\ valid_tickers[j] = tickers[Survivors[j]]
              /\ reqs[Survivors[j]][2] = valid_tickers[j]
              /\ data[j] = ExpectedTable(Survivors[j])
        /\ (pc = "done" /\ outcome = "ok" /\ Len(data) > 1) =>
              IF Len(columns) = 1
              THEN \A k \in 1..Len(df.columns) :
                      /\ df.columns[k].label = valid_tickers[k]
                      /\ df.columns[k].src = Survivors[k]
              ELSE \A k \in 1..Len(df.rows) :
                      /\ df.rows[k].key = <<valid_tickers[k]>>
                      /\ df.rows[k].src = Survivors[k]

C10_Witness ==
    /\ op = "hist" /\ pc = "done" /\ outcome = "ok"
    /\ tickers = <<"msft", "AAPL", "msft">>
    /\ resps = <<"rows", "error", "rows">>
    /\ valid_tickers = <<"msft", "msft">>
    /\ Len(data) = 2

====
